---- MODULE Spec2Model ----
(***************************************************************************)
(* Model of the SQL connection provider of dsc (sql_connection.go):        *)
(* sqlConnection (Begin / Commit / Rollback / Unwrap / CloseNow) and       *)
(* sqlConnectionProvider (NewConnection / Get / newSQLConnectionProvider). *)
(* The pool container and the return-to-pool path live in the abstract     *)
(* base, which is not part of sql_connection.go; they are modelled from    *)
(* the written contract of the pool (blocking checkout up to capacity,     *)
(* non-blocking return, unspecified order).                                *)
(***************************************************************************)
EXTENDS Integers, FiniteSets, Sequences, TLC

\* ---------------------------------------------------------------- bounds
NumCallers  == 2     \* concurrent callers of the provider
MaxConns    == 2     \* native handles ever opened by sql.Open
MaxTx       == 2     \* driver transactions open at the same time
MaxPoolCfg  == 2     \* largest MaxPoolSize a Config is given
InitLen     == 2     \* number of statements in config.InitSQL
TickSeconds == 60    \* seconds that pass in one Tick
MaxAge      == 120   \* ages saturate here (all ages above 60 s act alike)

\* ------------------------------------------------------ program constants
StaleSeconds        == 60      \* 60*time.Second in Get
CloseNowLifetimeMs  == 1000    \* 1000 * time.Millisecond in CloseNow
NoConn  == 0                  \* nil Connection
NoTx    == 0                  \* nil *sql.Tx
Nil     == -1                 \* nil *time.Time / absent config key / unset
CfgLifetimeMs == 5000          \* a configured connMaxLifetimeMs value
CfgMaxIdle    == 5             \* a configured maxIdleConns value

Callers == 1..NumCallers
ConnIds == 1..MaxConns
TxIds   == 1..MaxTx
InitSQL == [i \in 1..InitLen |-> i]

VARIABLES
  dialect,              \* GetDatastoreDialect(DriverName).CanHandleTransaction()
  MaxPoolSize,          \* config.MaxPoolSize (after construction)
  poolCap,              \* capacity of the pool container
  lifetimeCfg,          \* config value under connMaxLifetimeMs, Nil = key absent
  idleCfg,              \* config value under maxIdleConns, Nil = key absent
  made,                 \* native handles opened so far; handle h is 1..made
  conns,                \* sqlConnection instances (instance c wraps handle c)
  canHandleTransaction, \* sqlConnection.canHandleTransaction
  db,                   \* state of native handle: "none", "open", "closed"
  tx,                   \* sqlConnection.tx (NoTx = nil)
  lastUsed,             \* age in seconds of LastUsed(), Nil = no timestamp
  dbLifetime,           \* SetConnMaxLifetime value of a handle (ms), Nil = never set
  dbMaxIdle,            \* SetMaxIdleConns value of a handle, Nil = never set
  execd,                \* number of InitSQL statements executed on a handle
  openTx,               \* driver transaction -> connection it was begun on (NoConn = not open)
  pool,                 \* idle connections in the pool container
  outstanding,          \* connections the pool has handed out and not got back
  pc,                   \* caller position: "idle", "dequeued", "holding"
  result,               \* Get's local `result` / the connection the caller holds
  lastOp,               \* per connection: the holder's last call and its return
  ended,                \* per connection: return of the holder's last Commit or Rollback
                        \* since its last Begin call, "no" when there was none
  lastGet,              \* per caller: what the Get that gave it its connection did
  unwrapped             \* per caller: its last Unwrap call and what came back

cfgVars  == <<dialect, MaxPoolSize, poolCap, lifetimeCfg, idleCfg>>
newVars  == <<made, conns, canHandleTransaction, db, tx, lastUsed, execd>>
tuneVars == <<dbLifetime, dbMaxIdle>>
poolVars == <<pool, outstanding>>
callVars == <<pc, result>>
histVars == <<lastOp, ended>>
vars == <<cfgVars, newVars, tuneVars, openTx, poolVars, callVars, histVars, lastGet,
          unwrapped>>

NoOp  == [op |-> "none", ret |-> "nil", drv |-> FALSE, hadTx |-> FALSE, after |-> "no"]
NoUnwrap == [target |-> "none", panic |-> FALSE, val |-> Nil]
NoGet == [deq |-> NoConn, ping |-> "none", setLifetime |-> FALSE,
          setIdle |-> FALSE, ret |-> NoConn, err |-> FALSE, errFrom |-> "none"]

\* ------------------------------------------------------------ construction
\* Variant: an unset MaxPoolSize is kept as it is.
newSQLConnectionProviderNoDefault(m) ==
  [MaxPoolSize |-> m, cap |-> m]

\* Variant: the pool container is allocated one slot too large.
newSQLConnectionProviderOffByOne(m) ==
  LET size == IF m = 0 THEN 1 ELSE m
  IN  [MaxPoolSize |-> size, cap |-> size + 1]

\* newSQLConnectionProvider: MaxPoolSize defaults to 1; the pool container is
\* allocated with that capacity.
newSQLConnectionProvider(m) ==
  LET size == IF m = 0 THEN 1 ELSE m
  IN  [MaxPoolSize |-> size, cap |-> size]

Init ==
  /\ dialect \in BOOLEAN
  /\ \E m \in 0..MaxPoolCfg :
        /\ MaxPoolSize = newSQLConnectionProvider(m).MaxPoolSize
        /\ poolCap = newSQLConnectionProvider(m).cap
  /\ lifetimeCfg \in {Nil, 0, CfgLifetimeMs}
  /\ idleCfg \in {Nil, CfgMaxIdle}
  /\ made = 0
  /\ conns = {}
  /\ canHandleTransaction = [c \in ConnIds |-> FALSE]
  /\ db = [c \in ConnIds |-> "none"]
  /\ tx = [c \in ConnIds |-> NoTx]
  /\ lastUsed = [c \in ConnIds |-> Nil]
  /\ dbLifetime = [c \in ConnIds |-> Nil]
  /\ dbMaxIdle = [c \in ConnIds |-> Nil]
  /\ execd = [c \in ConnIds |-> 0]
  /\ openTx = [t \in TxIds |-> NoConn]
  /\ pool = {}
  /\ outstanding = 0
  /\ pc = [p \in Callers |-> "idle"]
  /\ result = [p \in Callers |-> NoConn]
  /\ lastOp = [c \in ConnIds |-> NoOp]
  /\ ended = [c \in ConnIds |-> "no"]
  /\ lastGet = [p \in Callers |-> NoGet]
  /\ unwrapped = [p \in Callers |-> NoUnwrap]

\* ------------------------------------------------------- native client
\* asSQLDb: the cast of the wrapped value to *sql.DB; it succeeds for every
\* handle stored in sqlConnection.db, which is declared *sql.DB.
asSQLDb(c) == c \in ConnIds

\* Smallest driver transaction that is not open.
FreeTx == {t \in TxIds : openTx[t] = NoConn}
NewTx  == CHOOSE t \in FreeTx : \A u \in FreeTx : t <= u

\* Variant: the driver opens a transaction on a handle that has been closed.
DbBeginOnClosed(c) == IF db[c] # "none" /\ FreeTx # {} THEN {TRUE, FALSE} ELSE {FALSE}

\* db.Begin(): fails on a closed handle, may fail on an open one.
DbBegin(c) == IF db[c] = "open" /\ FreeTx # {} THEN {TRUE, FALSE} ELSE {FALSE}

\* tx.Commit() / tx.Rollback(): the driver may succeed or fail.
TxEnd == {TRUE, FALSE}

\* db.Ping(): fails on a closed handle, may fail on an open one (peer gone).
DbPing(c) == IF db[c] = "open" THEN {TRUE, FALSE} ELSE {FALSE}

\* Transactions begun on connection c that are neither committed nor rolled back.
OpenOn(c) == {t \in TxIds : openTx[t] = c}

\* ------------------------------------------------------------ sqlConnection
Holding(p) == pc[p] = "holding" /\ result[p] # NoConn

\* What the holder of c sees of a call: its name, its return, whether the
\* driver was called, whether c.tx was non-nil when it was called, and the
\* return of the Commit or Rollback it follows with no Begin in between.
Record(c, op, ret, drv) ==
  /\ lastOp' = [lastOp EXCEPT ![c] =
        [op |-> op, ret |-> ret, drv |-> drv,
         hadTx |-> tx[c] # NoTx, after |-> ended[c]]]
  /\ ended' = [ended EXCEPT ![c] =
        IF op \in {"Commit", "Rollback"} THEN ret
        ELSE IF op = "Begin" THEN "no"
        ELSE ended[c]]

connFrame == <<cfgVars, made, conns, canHandleTransaction, lastUsed, execd,
               dbMaxIdle, poolVars, callVars, lastGet, unwrapped>>

\* Variant: Begin without the capability gate of line 33.
BeginUngated(p) ==
  /\ Holding(p)
  /\ LET c == result[p] IN
       \E ok \in DbBegin(c) :
         IF ok
         THEN /\ tx' = [tx EXCEPT ![c] = NewTx]
              /\ openTx' = [openTx EXCEPT ![NewTx] = c]
              /\ Record(c, "Begin", "nil", TRUE)
         ELSE /\ Record(c, "Begin", "driverErr", TRUE)
              /\ UNCHANGED <<tx, openTx>>
  /\ UNCHANGED <<connFrame, db, dbLifetime>>

\* Variant: Begin assigns db.Begin()'s result to c.tx before testing the
\* error, so a failed Begin stores nil.
BeginStoresOnError(p) ==
  /\ Holding(p)
  /\ LET c == result[p] IN
       IF ~canHandleTransaction[c]
       THEN /\ Record(c, "Begin", "nil", FALSE)
            /\ UNCHANGED <<tx, openTx>>
       ELSE IF ~asSQLDb(c)
       THEN /\ Record(c, "Begin", "castErr", FALSE)
            /\ UNCHANGED <<tx, openTx>>
       ELSE \E ok \in DbBegin(c) :
              IF ok
              THEN /\ tx' = [tx EXCEPT ![c] = NewTx]
                   /\ openTx' = [openTx EXCEPT ![NewTx] = c]
                   /\ Record(c, "Begin", "nil", TRUE)
              ELSE /\ Record(c, "Begin", "driverErr", TRUE)
                   /\ tx' = [tx EXCEPT ![c] = NoTx]
                   /\ UNCHANGED openTx
  /\ UNCHANGED <<connFrame, db, dbLifetime>>

\* func (c *sqlConnection) Begin() error
Begin(p) ==
  /\ Holding(p)
  /\ LET c == result[p] IN
       IF ~canHandleTransaction[c]
       THEN /\ Record(c, "Begin", "nil", FALSE)
            /\ UNCHANGED <<tx, openTx>>
       ELSE IF ~asSQLDb(c)
       THEN /\ Record(c, "Begin", "castErr", FALSE)
            /\ UNCHANGED <<tx, openTx>>
       ELSE \E ok \in DbBegin(c) :
              IF ok
              THEN /\ tx' = [tx EXCEPT ![c] = NewTx]
                   /\ openTx' = [openTx EXCEPT ![NewTx] = c]
                   /\ Record(c, "Begin", "nil", TRUE)
              ELSE /\ Record(c, "Begin", "driverErr", TRUE)
                   /\ UNCHANGED <<tx, openTx>>
  /\ UNCHANGED <<connFrame, db, dbLifetime>>

\* Variant: Commit/Rollback without the capability gate of lines 58 and 70.
EndTxUngated(p, op) ==
  /\ Holding(p)
  /\ LET c == result[p] IN
       IF tx[c] = NoTx
       THEN /\ Record(c, op, "noActiveTx", FALSE)
            /\ UNCHANGED <<tx, openTx>>
       ELSE \E ok \in TxEnd :
              /\ openTx' = [openTx EXCEPT ![tx[c]] = NoConn]
              /\ tx' = [tx EXCEPT ![c] = NoTx]
              /\ Record(c, op, IF ok THEN "nil" ELSE "driverErr", TRUE)
  /\ UNCHANGED <<connFrame, db, dbLifetime>>

\* Variant: Commit/Rollback without the nil check of lines 61 and 73; the
\* call on a nil transaction reaches the driver layer and fails there.
EndTxUnchecked(p, op) ==
  /\ Holding(p)
  /\ LET c == result[p] IN
       IF ~canHandleTransaction[c]
       THEN /\ Record(c, op, "nil", FALSE)
            /\ UNCHANGED <<tx, openTx>>
       ELSE IF tx[c] = NoTx
       THEN /\ Record(c, op, "driverErr", TRUE)
            /\ UNCHANGED <<tx, openTx>>
       ELSE \E ok \in TxEnd :
              /\ openTx' = [openTx EXCEPT ![tx[c]] = NoConn]
              /\ tx' = [tx EXCEPT ![c] = NoTx]
              /\ Record(c, op, IF ok THEN "nil" ELSE "driverErr", TRUE)
  /\ UNCHANGED <<connFrame, db, dbLifetime>>

\* Variant: Commit/Rollback that return the driver's error before c.tx = nil.
EndTxKeepOnError(p, op) ==
  /\ Holding(p)
  /\ LET c == result[p] IN
       IF ~canHandleTransaction[c]
       THEN /\ Record(c, op, "nil", FALSE)
            /\ UNCHANGED <<tx, openTx>>
       ELSE IF tx[c] = NoTx
       THEN /\ Record(c, op, "noActiveTx", FALSE)
            /\ UNCHANGED <<tx, openTx>>
       ELSE \E ok \in TxEnd :
              /\ openTx' = [openTx EXCEPT ![tx[c]] = NoConn]
              /\ tx' = IF ok THEN [tx EXCEPT ![c] = NoTx] ELSE tx
              /\ Record(c, op, IF ok THEN "nil" ELSE "driverErr", TRUE)
  /\ UNCHANGED <<connFrame, db, dbLifetime>>

\* Variant: Commit/Rollback that never reset c.tx.
EndTxNoClear(p, op) ==
  /\ Holding(p)
  /\ LET c == result[p] IN
       IF ~canHandleTransaction[c]
       THEN /\ Record(c, op, "nil", FALSE)
            /\ UNCHANGED <<tx, openTx>>
       ELSE IF tx[c] = NoTx
       THEN /\ Record(c, op, "noActiveTx", FALSE)
            /\ UNCHANGED <<tx, openTx>>
       ELSE \E ok \in TxEnd :
              /\ openTx' = [openTx EXCEPT ![tx[c]] = NoConn]
              /\ UNCHANGED tx
              /\ Record(c, op, IF ok THEN "nil" ELSE "driverErr", TRUE)
  /\ UNCHANGED <<connFrame, db, dbLifetime>>

\* Commit and Rollback share their shape: the capability gate, the
\* "no active transaction" check, the driver call, then c.tx = nil.
EndTx(p, op) ==
  /\ Holding(p)
  /\ LET c == result[p] IN
       IF ~canHandleTransaction[c]
       THEN /\ Record(c, op, "nil", FALSE)
            /\ UNCHANGED <<tx, openTx>>
       ELSE IF tx[c] = NoTx
       THEN /\ Record(c, op, "noActiveTx", FALSE)
            /\ UNCHANGED <<tx, openTx>>
       ELSE \E ok \in TxEnd :
              /\ openTx' = [openTx EXCEPT ![tx[c]] = NoConn]
              /\ tx' = [tx EXCEPT ![c] = NoTx]
              /\ Record(c, op, IF ok THEN "nil" ELSE "driverErr", TRUE)
  /\ UNCHANGED <<connFrame, db, dbLifetime>>

\* func (c *sqlConnection) Commit() error
Commit(p) == EndTx(p, "Commit")

\* func (c *sqlConnection) Rollback() error
Rollback(p) == EndTx(p, "Rollback")

\* Targets a caller passes to Unwrap: the two the connection knows and one
\* it does not.
sqlDbPointer  == "sqlDbPointer"
sqlTxtPointer == "sqlTxtPointer"
Targets == {sqlDbPointer, sqlTxtPointer, "other"}

unwrapFrame == <<cfgVars, newVars, tuneVars, openTx, poolVars, result, histVars,
                 lastGet>>

\* Variant: an unsupported target makes Unwrap return nil.
UnwrapReturnsNil(p, target) ==
  /\ Holding(p)
  /\ LET c == result[p] IN
       IF target = sqlDbPointer
       THEN /\ unwrapped' = [unwrapped EXCEPT ![p] =
                 [target |-> target, panic |-> FALSE, val |-> c]]
            /\ UNCHANGED pc
       ELSE IF target = sqlTxtPointer
       THEN /\ unwrapped' = [unwrapped EXCEPT ![p] =
                 [target |-> target, panic |-> FALSE, val |-> tx[c]]]
            /\ UNCHANGED pc
       ELSE /\ unwrapped' = [unwrapped EXCEPT ![p] =
                 [target |-> target, panic |-> FALSE, val |-> Nil]]
            /\ UNCHANGED pc
  /\ UNCHANGED unwrapFrame

\* func (c *sqlConnection) Unwrap(target interface{}) interface{}
\* c.db is the native handle of connection c (handle c), c.tx is tx[c].  The
\* panic unwinds the calling goroutine, which runs no further step.
Unwrap(p, target) ==
  /\ Holding(p)
  /\ LET c == result[p] IN
       IF target = sqlDbPointer
       THEN /\ unwrapped' = [unwrapped EXCEPT ![p] =
                 [target |-> target, panic |-> FALSE, val |-> c]]
            /\ UNCHANGED pc
       ELSE IF target = sqlTxtPointer
       THEN /\ unwrapped' = [unwrapped EXCEPT ![p] =
                 [target |-> target, panic |-> FALSE, val |-> tx[c]]]
            /\ UNCHANGED pc
       ELSE /\ unwrapped' = [unwrapped EXCEPT ![p] =
                 [target |-> target, panic |-> TRUE, val |-> Nil]]
            /\ pc' = [pc EXCEPT ![p] = "panicked"]
  /\ UNCHANGED unwrapFrame

\* func (c *sqlConnection) CloseNow() error
CloseNow(p) ==
  /\ Holding(p)
  /\ LET c == result[p] IN
       IF ~asSQLDb(c)
       THEN /\ Record(c, "CloseNow", "castErr", FALSE)
            /\ UNCHANGED <<db, dbLifetime>>
       ELSE /\ dbLifetime' = [dbLifetime EXCEPT ![c] = CloseNowLifetimeMs]
            /\ db' = [db EXCEPT ![c] = "closed"]
            /\ \E ok \in BOOLEAN :
                 Record(c, "CloseNow", IF ok THEN "nil" ELSE "driverErr", TRUE)
  /\ UNCHANGED <<connFrame, tx, openTx>>

\* ---------------------------------------------------- sqlConnectionProvider
\* Variant: the provider keeps one sqlConnection and hands that instance out
\* again instead of constructing a new one.
NewConnectionShared(kind, k, new) ==
  LET h == made + 1 IN
  CASE kind \in {"dsn", "open"} ->
         /\ new = NoConn
         /\ UNCHANGED newVars
    [] kind = "init" ->
         /\ made < MaxConns
         /\ k \in 1..Len(InitSQL)
         /\ new = NoConn
         /\ made' = h
         /\ db' = [db EXCEPT ![h] = "open"]
         /\ execd' = [execd EXCEPT ![h] = k - 1]
         /\ UNCHANGED <<conns, canHandleTransaction, tx, lastUsed>>
    [] kind = "ok" /\ conns # {} ->
         /\ new \in conns
         /\ UNCHANGED newVars
    [] kind = "ok" /\ conns = {} ->
         /\ made < MaxConns
         /\ new = h
         /\ made' = h
         /\ db' = [db EXCEPT ![h] = "open"]
         /\ execd' = [execd EXCEPT ![h] = Len(InitSQL)]
         /\ conns' = conns \cup {h}
         /\ canHandleTransaction' = [canHandleTransaction EXCEPT ![h] = dialect]
         /\ tx' = [tx EXCEPT ![h] = NoTx]
         /\ lastUsed' = [lastUsed EXCEPT ![h] = Nil]

\* Variant: NewConnection closes the handle it opened when an init
\* statement fails.
NewConnectionCloseOnError(kind, k, new) ==
  LET h == made + 1 IN
  CASE kind \in {"dsn", "open"} ->
         /\ new = NoConn
         /\ UNCHANGED newVars
    [] kind = "init" ->
         /\ made < MaxConns
         /\ k \in 1..Len(InitSQL)
         /\ new = NoConn
         /\ made' = h
         /\ db' = [db EXCEPT ![h] = "closed"]
         /\ execd' = [execd EXCEPT ![h] = k - 1]
         /\ UNCHANGED <<conns, canHandleTransaction, tx, lastUsed>>
    [] kind = "ok" ->
         /\ made < MaxConns
         /\ new = h
         /\ made' = h
         /\ db' = [db EXCEPT ![h] = "open"]
         /\ execd' = [execd EXCEPT ![h] = Len(InitSQL)]
         /\ conns' = conns \cup {h}
         /\ canHandleTransaction' = [canHandleTransaction EXCEPT ![h] = dialect]
         /\ tx' = [tx EXCEPT ![h] = NoTx]
         /\ lastUsed' = [lastUsed EXCEPT ![h] = Nil]

\* func (c *sqlConnectionProvider) NewConnection() (Connection, error)
\* kind: "dsn" (DsnDescriptor fails), "open" (sql.Open fails), "init" (the
\* k-th InitSQL statement fails), "ok".  new is the connection returned,
\* NoConn with an error.  A handle opened before a failing statement stays
\* open and belongs to no connection.
NewConnection(kind, k, new) ==
  LET h == made + 1 IN
  CASE kind \in {"dsn", "open"} ->
         /\ new = NoConn
         /\ UNCHANGED newVars
    [] kind = "init" ->
         /\ made < MaxConns
         /\ k \in 1..Len(InitSQL)
         /\ new = NoConn
         /\ made' = h
         /\ db' = [db EXCEPT ![h] = "open"]
         /\ execd' = [execd EXCEPT ![h] = k - 1]
         /\ UNCHANGED <<conns, canHandleTransaction, tx, lastUsed>>
    [] kind = "ok" ->
         /\ made < MaxConns
         /\ new = h
         /\ made' = h
         /\ db' = [db EXCEPT ![h] = "open"]
         /\ execd' = [execd EXCEPT ![h] = Len(InitSQL)]
         /\ conns' = conns \cup {h}
         /\ canHandleTransaction' = [canHandleTransaction EXCEPT ![h] = dialect]
         /\ tx' = [tx EXCEPT ![h] = NoTx]
         /\ lastUsed' = [lastUsed EXCEPT ![h] = Nil]

NewKinds == {"dsn", "open", "init", "ok"}

\* AbstractConnectionProvider.Get (the pool's checkout): waits while
\* poolCap connections are outstanding; hands out an idle connection, in no
\* particular order, or has one made on demand when none is idle.
AbstractGet(p) ==
  /\ pc[p] = "idle"
  /\ outstanding < poolCap
  /\ IF pool # {}
     THEN \E c \in pool :
            /\ pool' = pool \ {c}
            /\ result' = [result EXCEPT ![p] = c]
            /\ outstanding' = outstanding + 1
            /\ UNCHANGED newVars
     ELSE \E kind \in NewKinds, k \in 1..InitLen, new \in 0..MaxConns :
            /\ NewConnection(kind, k, new)
            /\ result' = [result EXCEPT ![p] = new]
            /\ outstanding' = IF new = NoConn THEN outstanding ELSE outstanding + 1
            /\ UNCHANGED pool
  /\ pc' = [pc EXCEPT ![p] = "dequeued"]
  /\ lastGet' = [lastGet EXCEPT ![p] = NoGet]
  /\ UNCHANGED <<cfgVars, tuneVars, openTx, histVars, unwrapped>>

\* The records of what a caller saw end when it gives its connection up.
Forget(p) ==
  /\ lastOp' = [lastOp EXCEPT ![result[p]] = NoOp]
  /\ ended' = [ended EXCEPT ![result[p]] = "no"]
  /\ lastGet' = [lastGet EXCEPT ![p] = NoGet]
  /\ unwrapped' = [unwrapped EXCEPT ![p] = NoUnwrap]

\* connection.Close() of the abstract base: the non-blocking return to the
\* pool; the pool stamps the connection's last-used time.
Close(p) ==
  /\ Holding(p)
  /\ pool' = pool \cup {result[p]}
  /\ outstanding' = outstanding - 1
  /\ lastUsed' = [lastUsed EXCEPT ![result[p]] = 0]
  /\ pc' = [pc EXCEPT ![p] = "idle"]
  /\ result' = [result EXCEPT ![p] = NoConn]
  /\ Forget(p)
  /\ UNCHANGED <<cfgVars, made, conns, canHandleTransaction, db, tx, execd,
                 tuneVars, openTx>>

\* Variant: the lifetime setter is called whenever its key is present, a
\* zero duration included.
TuneZeroLifetime(c) ==
  /\ dbLifetime' = IF lifetimeCfg # Nil
                   THEN [dbLifetime EXCEPT ![c] = lifetimeCfg]
                   ELSE dbLifetime
  /\ dbMaxIdle' = IF idleCfg # Nil
                  THEN [dbMaxIdle EXCEPT ![c] = idleCfg]
                  ELSE dbMaxIdle

\* Lines 129-137 of Get: the tuning setters, called on handle c.
Tune(c) ==
  /\ dbLifetime' = IF lifetimeCfg # Nil /\ lifetimeCfg # 0
                   THEN [dbLifetime EXCEPT ![c] = lifetimeCfg]
                   ELSE dbLifetime
  /\ dbMaxIdle' = IF idleCfg # Nil
                  THEN [dbMaxIdle EXCEPT ![c] = idleCfg]
                  ELSE dbMaxIdle

\* Variant: a timestamp exactly 60 s old already counts as stale.
NeedsPingAtLeast(c) == lastUsed[c] # Nil /\ lastUsed[c] >= StaleSeconds

\* result.LastUsed() != nil && time.Now().Sub(*result.LastUsed()) > 60*time.Second
NeedsPing(c) == lastUsed[c] # Nil /\ lastUsed[c] > StaleSeconds

\* Variant: after a failed probe Get hands the dequeued connection back
\* instead of the one NewConnection made.
GetReturnsStale(p) ==
  /\ pc[p] = "dequeued"
  /\ LET c == result[p] IN
       IF c = NoConn \/ ~asSQLDb(c)
       THEN /\ pc' = [pc EXCEPT ![p] = "idle"]
            /\ result' = [result EXCEPT ![p] = NoConn]
            /\ lastGet' = [lastGet EXCEPT ![p] =
                 [NoGet EXCEPT !.deq = c, !.err = TRUE,
                    !.errFrom = IF c = NoConn THEN "checkout" ELSE "asSQLDb"]]
            /\ UNCHANGED <<newVars, tuneVars>>
       ELSE \E pingOk \in DbPing(c) :
              IF ~NeedsPing(c) \/ pingOk
              THEN /\ pc' = [pc EXCEPT ![p] = "holding"]
                   /\ lastGet' = [lastGet EXCEPT ![p] =
                        [NoGet EXCEPT !.deq = c, !.ret = c,
                           !.ping = IF NeedsPing(c) THEN "ok" ELSE "none"]]
                   /\ UNCHANGED <<result, newVars, tuneVars>>
              ELSE \E kind \in NewKinds, k \in 1..InitLen, new \in 0..MaxConns :
                     /\ Tune(c)
                     /\ NewConnection(kind, k, new)
                     /\ UNCHANGED result
                     /\ pc' = [pc EXCEPT ![p] =
                                 IF new = NoConn THEN "idle" ELSE "holding"]
                     /\ lastGet' = [lastGet EXCEPT ![p] =
                          [deq |-> c, ping |-> "fail",
                           setLifetime |-> lifetimeCfg # Nil /\ lifetimeCfg # 0,
                           setIdle |-> idleCfg # Nil,
                           ret |-> IF new = NoConn THEN NoConn ELSE c,
                           err |-> new = NoConn,
                           errFrom |-> IF new = NoConn THEN "NewConnection" ELSE "none"]]
  /\ UNCHANGED <<cfgVars, openTx, poolVars, histVars, unwrapped>>

\* Variant: after a failed probe Get gives up and returns the probe's error.
GetProbeError(p) ==
  /\ pc[p] = "dequeued"
  /\ LET c == result[p] IN
       IF c = NoConn \/ ~asSQLDb(c)
       THEN /\ pc' = [pc EXCEPT ![p] = "idle"]
            /\ result' = [result EXCEPT ![p] = NoConn]
            /\ lastGet' = [lastGet EXCEPT ![p] =
                 [NoGet EXCEPT !.deq = c, !.err = TRUE,
                    !.errFrom = IF c = NoConn THEN "checkout" ELSE "asSQLDb"]]
            /\ UNCHANGED <<newVars, tuneVars>>
       ELSE \E pingOk \in DbPing(c) :
              IF ~NeedsPing(c) \/ pingOk
              THEN /\ pc' = [pc EXCEPT ![p] = "holding"]
                   /\ lastGet' = [lastGet EXCEPT ![p] =
                        [NoGet EXCEPT !.deq = c, !.ret = c,
                           !.ping = IF NeedsPing(c) THEN "ok" ELSE "none"]]
                   /\ UNCHANGED <<result, newVars, tuneVars>>
              ELSE /\ Tune(c)
                   /\ result' = [result EXCEPT ![p] = NoConn]
                   /\ pc' = [pc EXCEPT ![p] = "idle"]
                   /\ lastGet' = [lastGet EXCEPT ![p] =
                        [deq |-> c, ping |-> "fail",
                         setLifetime |-> lifetimeCfg # Nil /\ lifetimeCfg # 0,
                         setIdle |-> idleCfg # Nil,
                         ret |-> NoConn, err |-> TRUE, errFrom |-> "Ping"]]
                   /\ UNCHANGED newVars
  /\ UNCHANGED <<cfgVars, openTx, poolVars, histVars, unwrapped>>

\* func (c *sqlConnectionProvider) Get() (Connection, error), after the
\* checkout of line 112 has come back.
Get(p) ==
  /\ pc[p] = "dequeued"
  /\ LET c == result[p] IN
       IF c = NoConn \/ ~asSQLDb(c)
       THEN /\ pc' = [pc EXCEPT ![p] = "idle"]
            /\ result' = [result EXCEPT ![p] = NoConn]
            /\ lastGet' = [lastGet EXCEPT ![p] =
                 [NoGet EXCEPT !.deq = c, !.err = TRUE,
                    !.errFrom = IF c = NoConn THEN "checkout" ELSE "asSQLDb"]]
            /\ UNCHANGED <<newVars, tuneVars>>
       ELSE \E pingOk \in DbPing(c) :
              IF ~NeedsPing(c) \/ pingOk
              THEN /\ pc' = [pc EXCEPT ![p] = "holding"]
                   /\ lastGet' = [lastGet EXCEPT ![p] =
                        [NoGet EXCEPT !.deq = c, !.ret = c,
                           !.ping = IF NeedsPing(c) THEN "ok" ELSE "none"]]
                   /\ UNCHANGED <<result, newVars, tuneVars>>
              ELSE \E kind \in NewKinds, k \in 1..InitLen, new \in 0..MaxConns :
                     /\ Tune(c)
                     /\ NewConnection(kind, k, new)
                     /\ result' = [result EXCEPT ![p] = new]
                     /\ pc' = [pc EXCEPT ![p] =
                                 IF new = NoConn THEN "idle" ELSE "holding"]
                     /\ lastGet' = [lastGet EXCEPT ![p] =
                          [deq |-> c, ping |-> "fail",
                           setLifetime |-> lifetimeCfg # Nil /\ lifetimeCfg # 0,
                           setIdle |-> idleCfg # Nil,
                           ret |-> new, err |-> new = NoConn,
                           errFrom |-> IF new = NoConn THEN "NewConnection" ELSE "none"]]
  /\ UNCHANGED <<cfgVars, openTx, poolVars, histVars, unwrapped>>

\* The caller drops a connection it has destroyed with CloseNow: the
\* connection object is gone (its native handle stays closed, a transaction
\* left open on it stays open at the driver).
Discard(p) ==
  /\ Holding(p)
  /\ db[result[p]] = "closed"
  /\ pc' = [pc EXCEPT ![p] = "idle"]
  /\ result' = [result EXCEPT ![p] = NoConn]
  /\ conns' = conns \ {result[p]}
  /\ tx' = [tx EXCEPT ![result[p]] = NoTx]
  /\ lastUsed' = [lastUsed EXCEPT ![result[p]] = Nil]
  /\ Forget(p)
  /\ UNCHANGED <<cfgVars, made, canHandleTransaction, db, execd, tuneVars,
                 openTx, poolVars>>

\* Connections whose timestamp the provider may still read.
Waiting ==
  pool \cup {result[p] : p \in {q \in Callers : pc[q] = "dequeued" /\ result[q] # NoConn}}

\* Time passes: the timestamp of every waiting connection gets TickSeconds
\* older.  The age of a connection a caller holds is not tracked: nothing
\* reads it before the return to the pool stamps it again.
Tick ==
  /\ \E c \in Waiting : lastUsed[c] # Nil /\ lastUsed[c] < MaxAge
  /\ lastUsed' = [c \in ConnIds |->
        IF lastUsed[c] = Nil \/ c \notin Waiting THEN lastUsed[c]
        ELSE IF lastUsed[c] + TickSeconds > MaxAge THEN MaxAge
        ELSE lastUsed[c] + TickSeconds]
  /\ UNCHANGED <<cfgVars, made, conns, canHandleTransaction, db, tx, execd,
                 tuneVars, openTx, poolVars, callVars, histVars, lastGet,
                 unwrapped>>

Next ==
  \/ \E p \in Callers : AbstractGet(p)
  \/ \E p \in Callers : Get(p)
  \/ \E p \in Callers : Begin(p)
  \/ \E p \in Callers : Commit(p)
  \/ \E p \in Callers : Rollback(p)
  \/ \E p \in Callers, target \in Targets : Unwrap(p, target)
  \/ \E p \in Callers : CloseNow(p)
  \/ \E p \in Callers : Close(p)
  \/ \E p \in Callers : Discard(p)
  \/ Tick

Spec == Init /\ [][Next]_vars

\* A provider configured without tuning keys.
InitPlain == Init /\ lifetimeCfg = Nil /\ idleCfg = Nil

\* A provider constructed with MaxPoolSize unset and no tuning keys.
InitConn == InitPlain /\ poolCap = newSQLConnectionProvider(0).cap

\* One caller using the provider and its connections on its own.
Solo == {p \in Callers : \A q \in Callers : p <= q}

NextConn ==
  \/ \E p \in Solo : AbstractGet(p)
  \/ \E p \in Solo : Get(p)
  \/ \E p \in Solo : Begin(p)
  \/ \E p \in Solo : Commit(p)
  \/ \E p \in Solo : Rollback(p)
  \/ \E p \in Solo : CloseNow(p)
  \/ \E p \in Solo : Close(p)
  \/ \E p \in Solo : Discard(p)
  \/ Tick

SpecConn == InitConn /\ [][NextConn]_vars

\* The same caller, also unwrapping the connection it holds.
NextUnwrap ==
  \/ NextConn
  \/ \E p \in Solo, target \in Targets : Unwrap(p, target)

SpecUnwrap == InitConn /\ [][NextUnwrap]_vars

\* Concurrent callers checking connections out and in, with no transaction
\* control calls.
NextPool ==
  \/ \E p \in Callers : AbstractGet(p)
  \/ \E p \in Callers : Get(p)
  \/ \E p \in Callers : CloseNow(p)
  \/ \E p \in Callers : Close(p)
  \/ \E p \in Callers : Discard(p)
  \/ Tick

SpecPool == InitPlain /\ [][NextPool]_vars

\* Concurrent callers that check connections out and return them to the pool.
NextCheckout ==
  \/ \E p \in Callers : AbstractGet(p)
  \/ \E p \in Callers : Get(p)
  \/ \E p \in Callers : Close(p)
  \/ Tick

SpecCheckout == InitPlain /\ [][NextCheckout]_vars

\* Fair scheduling of callers that keep asking for connections: a caller
\* whose checkout is possible again and again gets through, a Get past the
\* checkout runs on, and a caller holding a connection eventually returns
\* it to the pool or, having destroyed it with CloseNow, drops it.
Fairness ==
  \A p \in Callers :
     /\ SF_vars(AbstractGet(p))
     /\ WF_vars(Get(p))
     /\ WF_vars(Close(p) \/ Discard(p))

SpecLive == InitPlain /\ [][NextPool]_vars /\ Fairness

\* One caller on a provider constructed with any combination of tuning keys.
InitTune == Init /\ poolCap = newSQLConnectionProvider(0).cap

SpecTune == InitTune /\ [][NextConn]_vars

\* Concurrent callers sharing a transactional provider, transaction control
\* calls included.
InitShare == InitPlain /\ dialect

NextShare ==
  \/ \E p \in Callers : AbstractGet(p)
  \/ \E p \in Callers : Get(p)
  \/ \E p \in Callers : Begin(p)
  \/ \E p \in Callers : Commit(p)
  \/ \E p \in Callers : Rollback(p)
  \/ \E p \in Callers : CloseNow(p)
  \/ \E p \in Callers : Close(p)
  \/ \E p \in Callers : Discard(p)
  \/ Tick

SpecShare == InitShare /\ [][NextShare]_vars

\* ==================================================================== claims
EndOps == {"Commit", "Rollback"}
TxOps  == {"Begin", "Commit", "Rollback"}

\* C1: on a connection whose dialect has no transactions, every Begin,
\* Commit and Rollback, in any order, returns nil without calling the
\* driver, and the transaction handle stays nil.
C1_NonTransactionalNoOps ==
  \A c \in conns : ~canHandleTransaction[c] =>
     /\ tx[c] = NoTx
     /\ OpenOn(c) = {}
     /\ lastOp[c].op \in TxOps => (lastOp[c].ret = "nil" /\ ~lastOp[c].drv)

\* A Rollback that follows a Commit or Rollback, no Begin in between, on a
\* connection without transactions.
C1_Witness ==
  \E c \in conns : /\ ~canHandleTransaction[c]
                   /\ lastOp[c].op = "Rollback"
                   /\ lastOp[c].after = "nil"

\* C2: on a transactional connection, Commit or Rollback called while the
\* transaction handle is nil returns "no active transaction", does not call
\* the driver, and leaves the handle nil.
C2_NoActiveTransaction ==
  \A c \in conns :
     (canHandleTransaction[c] /\ lastOp[c].op \in EndOps /\ ~lastOp[c].hadTx) =>
        /\ lastOp[c].ret = "noActiveTx"
        /\ ~lastOp[c].drv
        /\ tx[c] = NoTx

\* A Commit right after construction (no call before it) that found no
\* transaction.
C2_Witness ==
  \E c \in conns : /\ canHandleTransaction[c]
                   /\ lastOp[c].op = "Commit"
                   /\ ~lastOp[c].hadTx
                   /\ lastOp[c].after = "no"
                   /\ lastOp[c].ret = "noActiveTx"

\* C3: on a transactional connection with an active transaction, Commit and
\* Rollback call the driver and leave the handle nil whether the driver
\* succeeds or fails; they return nil or the driver's error.
C3_EndClearsHandle ==
  \A c \in conns :
     (canHandleTransaction[c] /\ lastOp[c].op \in EndOps /\ lastOp[c].hadTx) =>
        /\ tx[c] = NoTx
        /\ lastOp[c].drv
        /\ lastOp[c].ret \in {"nil", "driverErr"}

\* A Rollback on an active transaction whose driver call failed.
C3_Witness ==
  \E c \in conns : /\ canHandleTransaction[c]
                   /\ lastOp[c].op = "Rollback"
                   /\ lastOp[c].hadTx
                   /\ lastOp[c].ret = "driverErr"
                   /\ tx[c] = NoTx

\* C4: on a transactional connection, a Commit or Rollback that follows a
\* Commit or Rollback (whatever that one returned) with no Begin in between
\* returns "no active transaction".
C4_SecondEndFails ==
  \A c \in conns :
     (canHandleTransaction[c] /\ lastOp[c].op \in EndOps /\ lastOp[c].after # "no") =>
        lastOp[c].ret = "noActiveTx"

\* Commit after a Commit that returned nil (so after a Begin that
\* succeeded): Begin, Commit, Commit.
C4_Witness ==
  \E c \in conns : /\ canHandleTransaction[c]
                   /\ lastOp[c].op = "Commit"
                   /\ lastOp[c].after = "nil"
                   /\ lastOp[c].ret = "noActiveTx"

\* C5: at most one transaction begun on a connection is open (neither
\* committed nor rolled back) at any time.
C5_AtMostOneOpenTx ==
  \A c \in conns : Cardinality(OpenOn(c)) <= 1

\* C6: the transaction handle is non-nil only on a connection whose
\* capability flag is true, and the flag is the dialect's answer given at
\* construction, under every operation.
C6_HandleOnlyIfCapable ==
  \A c \in conns :
     /\ tx[c] # NoTx => canHandleTransaction[c]
     /\ canHandleTransaction[c] = dialect

\* A connection that went back to the pool with its handle set.
C6_Witness ==
  \E c \in pool : tx[c] # NoTx /\ canHandleTransaction[c]

\* Callers a Get has handed a connection to and who still hold it.
CheckedOut == {p \in Callers : pc[p] = "holding"}

\* A step in which caller p's Get returns a connection.
GetReturns(p) == pc[p] = "dequeued" /\ pc'[p] = "holding"

\* C7: a Get that dequeued a connection whose timestamp is more than 60 s
\* old pings it; when the ping fails Get does not return the dequeued
\* connection: it returns an error, or a connection that did not exist
\* before, on a native handle that did not exist before.
C7_FailedProbeNeverReturnsStale ==
  [][\A p \in Callers :
       (pc[p] = "dequeued" /\ pc'[p] # "dequeued" /\ result[p] # NoConn) =>
          /\ NeedsPing(result[p]) => lastGet'[p].ping \in {"ok", "fail"}
          /\ lastGet'[p].ping = "fail" =>
               \/ result'[p] = NoConn /\ pc'[p] = "idle"
               \/ /\ result'[p] # result[p]
                  /\ result'[p] \notin conns
                  /\ db[result'[p]] = "none"
                  /\ result'[p] \in conns'
                  /\ db'[result'[p]] = "open"]_vars

\* A caller holding the connection made after the probe of a stale one failed.
C7_Witness ==
  \E p \in Callers : /\ Holding(p)
                     /\ lastGet[p].ping = "fail"
                     /\ lastGet[p].deq # NoConn
                     /\ result[p] # lastGet[p].deq

\* C8: when the probe succeeds or is not needed, Get returns the dequeued
\* connection after applying the tuning setters of the configured keys to
\* its native handle.
C8_TuningOnReuse ==
  \A p \in Callers :
     (Holding(p) /\ lastGet[p].ret = lastGet[p].deq /\ lastGet[p].ret # NoConn) =>
        /\ idleCfg # Nil => lastGet[p].setIdle
        /\ (lifetimeCfg # Nil /\ lifetimeCfg # 0) => lastGet[p].setLifetime

\* C9: at most MaxPoolSize connections obtained from Get are checked out at
\* the same time, those made on the failed-probe path included, and no Get
\* completes while MaxPoolSize are checked out.
C9_PoolCapacity ==
  /\ [](Cardinality(CheckedOut) <= MaxPoolSize)
  /\ [][\A p \in Callers : GetReturns(p) => Cardinality(CheckedOut) < MaxPoolSize]_vars

\* MaxPoolSize callers hold connections, one of them made on the
\* failed-probe path, and another caller has no connection.
C9_Witness ==
  /\ Cardinality(CheckedOut) = MaxPoolSize
  /\ \E p \in Callers : pc[p] = "idle"
  /\ \E q \in Callers : Holding(q) /\ lastGet[q].ping = "fail"

\* C10: no Get returns a connection on which CloseNow has been called (the
\* only call that closes a native handle).
C10_ClosedNeverReturned ==
  [][\A p \in Callers : GetReturns(p) => db[result'[p]] # "closed"]_vars

\* C11: a connection instance is held by at most one caller from the Get
\* that returned it until that caller returns it to the pool or destroys
\* it, it is never idle in the pool while held, and its transaction handle
\* and call records change only in steps of the caller holding it.
C11_SingleHolder ==
  /\ [](\A p \in Callers : result[p] # NoConn =>
          /\ result[p] \notin pool
          /\ \A q \in Callers \ {p} : result[q] # result[p])
  /\ [][\A c \in conns :
          (tx'[c] # tx[c] \/ lastOp'[c] # lastOp[c]) =>
             /\ Cardinality({p \in Callers : Holding(p) /\ result[p] = c}) = 1
             /\ \A q \in Callers : result[q] # c => UNCHANGED <<pc[q], result[q]>>]_vars

\* Two callers hold connections at the same time, each with a transaction
\* begun on its own connection.
C11_Witness ==
  \E p, q \in Callers :
     /\ p # q /\ Holding(p) /\ Holding(q)
     /\ tx[result[p]] # NoTx /\ tx[result[q]] # NoTx

\* C12: a Get whose probe failed returns an error exactly when
\* NewConnection made no connection, the error is NewConnection's, and
\* otherwise it returns the connection NewConnection made with no error.
C12_FailedProbeOutcome ==
  [][\A p \in Callers :
       (pc[p] = "dequeued" /\ pc'[p] # "dequeued" /\ lastGet'[p].ping = "fail") =>
          /\ lastGet'[p].err <=> conns' = conns
          /\ lastGet'[p].err =>
               /\ lastGet'[p].errFrom = "NewConnection"
               /\ result'[p] = NoConn /\ pc'[p] = "idle"
          /\ ~lastGet'[p].err =>
               /\ lastGet'[p].errFrom = "none"
               /\ result'[p] \in conns' \ conns
               /\ lastGet'[p].ret = result'[p] /\ pc'[p] = "holding"]_vars

\* A Get came back with NewConnection's error after the probe of the
\* connection it dequeued failed; the handle NewConnection opened before its
\* init statement failed exists.
C12_Witness ==
  \E p \in Callers :
     /\ pc[p] = "idle" /\ result[p] = NoConn
     /\ lastGet[p].ping = "fail" /\ lastGet[p].deq # NoConn
     /\ lastGet[p].err /\ lastGet[p].errFrom = "NewConnection"
     /\ \E h \in 1..made : h \notin conns /\ db[h] = "open"

\* C13: NewConnection runs the init statements in list order on the handle
\* it opened.  When one fails it has run exactly the statements before that
\* one, returns no connection, and leaves the handle open with the executed
\* statements in effect, for good; a connection is returned only on a handle
\* on which all of them ran.
C13_InitSQLInOrder ==
  [][/\ made' \in {made, made + 1}
     /\ \A h \in 1..made :
          /\ execd'[h] = execd[h]
          /\ (h \notin conns /\ db[h] = "open") => (h \notin conns' /\ db'[h] = "open")
     /\ made' = made + 1 =>
          LET h == made' IN
            /\ db'[h] = "open"
            /\ execd'[h] \in 0..Len(InitSQL)
            /\ execd'[h] = Len(InitSQL) <=> h \in conns'
            /\ execd'[h] < Len(InitSQL) =>
                 /\ conns' = conns
                 /\ \A p \in Callers : result'[p] # h
                 /\ h \notin pool']_vars

\* The second init statement failed on a handle: the first one was executed,
\* the handle is open and no connection wraps it, while a connection is
\* in use on another handle.
C13_Witness ==
  \E h \in 1..made :
     /\ h \notin conns /\ db[h] = "open" /\ execd[h] = 1
     /\ \E p \in Callers : Holding(p) /\ execd[result[p]] = Len(InitSQL)

\* C14: the provider is constructed with an empty pool; its capacity is 1
\* when MaxPoolSize is unset (0) and MaxPoolSize when it is positive.
C14_DefaultCapacity ==
  /\ pool = {} /\ outstanding = 0
  /\ [](\A n \in 0..MaxPoolCfg :
          newSQLConnectionProvider(n).cap = IF n = 0 THEN 1 ELSE n)
  /\ [](\E n \in 0..MaxPoolCfg :
          /\ poolCap = IF n = 0 THEN 1 ELSE n
          /\ MaxPoolSize = poolCap)

\* A provider configured with the largest MaxPoolSize has that many
\* connections checked out and none idle.
C14_Witness ==
  /\ poolCap = MaxPoolCfg /\ MaxPoolCfg > 1
  /\ Cardinality(CheckedOut) = poolCap
  /\ pool = {}

C16_PingOnlyWhenStale ==
  [][\A p \in Callers :
       (pc[p] = "dequeued" /\ pc'[p] # "dequeued" /\ result[p] # NoConn) =>
          LET c == result[p]
              stale == lastUsed[c] # Nil /\ lastUsed[c] > StaleSeconds
          IN  /\ lastGet'[p].ping # "none" <=> stale
              /\ ~stale =>
                   /\ pc'[p] = "holding" /\ result'[p] = c
                   /\ lastGet'[p].ret = c /\ ~lastGet'[p].err
                   /\ UNCHANGED <<db, conns, made>>]_vars

\* A caller was handed, unprobed, a connection whose timestamp is exactly
\* 60 s old and whose native handle is closed.
C16_Witness ==
  \E p \in Callers :
     /\ Holding(p) /\ lastGet[p].ping = "none" /\ lastGet[p].ret = result[p]
     /\ lastUsed[result[p]] = StaleSeconds
     /\ db[result[p]] = "closed"
     /\ lastOp[result[p]].op = "none"

\* C17: a Get whose probe failed leaves the stale connection open, out of
\* the pool and with its transaction handle as it was.  It changes only the
\* tuning of the stale handle: the lifetime when connMaxLifetimeMs is
\* present and not zero, the idle count when maxIdleConns is present; it
\* does so whether or not NewConnection then succeeds, and it tunes no other
\* handle.
C17_StaleLeftAlone ==
  [][\A p \in Callers :
       (pc[p] = "dequeued" /\ pc'[p] # "dequeued" /\ lastGet'[p].ping = "fail") =>
          LET c == result[p] IN
            /\ db'[c] = db[c] /\ c \in conns'
            /\ c \notin pool' /\ outstanding' = outstanding
            /\ tx'[c] = tx[c] /\ openTx' = openTx
            /\ lastUsed'[c] = lastUsed[c] /\ execd'[c] = execd[c]
            /\ canHandleTransaction'[c] = canHandleTransaction[c]
            /\ dbLifetime'[c] = IF lifetimeCfg \notin {Nil, 0} THEN lifetimeCfg
                                ELSE dbLifetime[c]
            /\ dbMaxIdle'[c] = IF idleCfg # Nil THEN idleCfg ELSE dbMaxIdle[c]
            /\ \A h \in ConnIds \ {c} :
                 dbLifetime'[h] = dbLifetime[h] /\ dbMaxIdle'[h] = dbMaxIdle[h]]_vars

\* After a failed probe whose NewConnection failed as well: the stale
\* connection, returned to the pool with a transaction active, is open and
\* out of the pool with that transaction stored; maxIdleConns was applied to
\* its handle, the lifetime was not because connMaxLifetimeMs is zero.
C17_Witness ==
  \E p \in Callers :
     LET c == lastGet[p].deq IN
       /\ lastGet[p].ping = "fail" /\ lastGet[p].err /\ c # NoConn
       /\ db[c] = "open" /\ c \in conns /\ c \notin pool
       /\ tx[c] # NoTx /\ openTx[tx[c]] = c
       /\ lifetimeCfg = 0 /\ dbLifetime[c] = Nil
       /\ idleCfg = CfgMaxIdle /\ dbMaxIdle[c] = CfgMaxIdle

\* C18: on a transactional connection a Begin that returns an error leaves
\* the transaction handle and the driver's transactions as they were; a
\* Begin that returns nil stores a transaction the driver has just opened,
\* and a transaction stored before stays open at the driver, neither
\* committed nor rolled back.
C18_BeginStoresOnSuccess ==
  [][\A c \in conns :
       (/\ canHandleTransaction[c]
        /\ lastOp'[c].op = "Begin"
        /\ lastOp'[c] # lastOp[c] \/ tx'[c] # tx[c]) =>
          IF lastOp'[c].ret = "nil"
          THEN /\ tx'[c] # NoTx /\ tx'[c] # tx[c]
               /\ openTx[tx'[c]] = NoConn /\ openTx'[tx'[c]] = c
               /\ \A t \in TxIds \ {tx'[c]} : openTx'[t] = openTx[t]
          ELSE /\ lastOp'[c].ret \in {"driverErr", "castErr"}
               /\ tx'[c] = tx[c] /\ openTx' = openTx]_vars

\* A Begin returned an error while a transaction was active, which is still
\* stored: it was itself begun over an earlier one that is still open at
\* the driver.
C18_Witness ==
  \E c \in conns :
     /\ canHandleTransaction[c]
     /\ lastOp[c].op = "Begin" /\ lastOp[c].ret = "driverErr" /\ lastOp[c].hadTx
     /\ tx[c] # NoTx /\ openTx[tx[c]] = c
     /\ \E t \in OpenOn(c) : t # tx[c]

\* C20: Unwrap returns the native handle for the database-handle tag and
\* the stored transaction handle, nil when there is none, for the
\* transaction-handle tag; for any other tag it panics and returns nothing.
\* In all three cases the connection, its transaction handle and its native
\* handle are as before.
C20_UnwrapByTag ==
  [][\A p \in Callers :
       (unwrapped'[p] # unwrapped[p] /\ unwrapped'[p].target # "none") =>
          LET c == result[p]
              u == unwrapped'[p]
          IN  /\ u.target = sqlDbPointer => (~u.panic /\ u.val = c /\ db[c] # "none")
              /\ u.target = sqlTxtPointer => (~u.panic /\ u.val = tx[c])
              /\ u.target \notin {sqlDbPointer, sqlTxtPointer} <=> u.panic
              /\ u.panic <=> pc'[p] = "panicked"
              /\ UNCHANGED <<tx, db, openTx, conns, pool, result, dbLifetime,
                             dbMaxIdle, lastOp>>]_vars

\* A caller that unwrapped the transaction handle of a connection with an
\* active transaction and got that transaction.
C20_Witness ==
  \E p \in Callers :
     /\ Holding(p)
     /\ unwrapped[p].target = sqlTxtPointer
     /\ unwrapped[p].val = tx[result[p]] /\ tx[result[p]] # NoTx

\* C19: under fair scheduling, when every caller that got a connection
\* from Get returns it to the pool or destroys it with CloseNow, every Get
\* call completes: a caller waiting for the checkout gets past it, and a
\* Get past the checkout returns.
C19_EveryGetCompletes ==
  \A p \in Callers :
     /\ (pc[p] = "idle") ~> (pc[p] = "dequeued")
     /\ (pc[p] = "dequeued") ~> (pc[p] # "dequeued")

====
